---- MODULE Spec2Model ----
(***************************************************************************)
(* Client-side orchestration of the SF Bay policy simulator front end:     *)
(*   useSimulation  (Session Controller + poll source)                     *)
(*   useMapData     (Result Compositor)                                    *)
(*   useWebSocket   (push source)                                          *)
(*   TimeControl    (Playback Controller)                                  *)
(*   App            (composition of the hooks)                             *)
(*                                                                         *)
(* JavaScript runs handlers to completion on one thread, so every action   *)
(* below is one handler (an event handler, a timer callback, or the        *)
(* continuation of an await) together with the re-render and the effects   *)
(* that its state updates trigger.  Nullable values are modelled as sets   *)
(* with at most one element (None / Some(x)); run ids are positive         *)
(* integers with 0 standing for null.                                      *)
(***************************************************************************)
EXTENDS Integers, Sequences, FiniteSets, Bags, TLC

-----------------------------------------------------------------------------
(* Bounds of the model *)

\* runs launched or being launched in one behaviour
MaxLaunches == 2
\* entries the conversation history may grow to
MaxHistory == 3
\* status requests that may be outstanding at the same time
MaxPollsInFlight == 2
\* result fetches that may be outstanding at the same time
MaxFetchesInFlight == 2
\* sockets that may be open, opening or closing at the same time
MaxSockets == 2
\* timesteps the host of useMapData passes when the hook is driven alone
MaxTimestep == 2
\* progress values reported by the status service: 0 .. MaxProgress
MaxProgress == 1

-----------------------------------------------------------------------------
(* Values *)

None == {}
Some(x) == {x}
IsNull(o) == o = {}
Val(o) == CHOOSE x \in o : TRUE

NullId == 0
RunIds == 1..MaxLaunches

\* total_steps written by startSimulation
TOTAL_STEPS == 260

\* PolicyConfig objects: the fields selectScenario reads.  An absent string
\* field and an empty one are both falsy for `||`, so "" stands for both; an
\* absent array field and [] both yield [] through `|| []`.
MkConfig(n, d, t, e) ==
    [name |-> n, description |-> d, target_tract_ids |-> t,
     enforcement_target_tracts |-> e]

ScenarioConfigs ==
    { MkConfig("Upzone", "", <<"A">>, <<>>),
      MkConfig("", "", <<>>, <<"B">>) }

Texts == {"build housing"}

\* what the interpretation service may answer (ParseResponse)
ParseResponses ==
    { [config |-> MkConfig("parsed", "", <<>>, <<>>), summary |-> "s1",
       affected_tracts |-> <<"A">>, warnings |-> Some(<<"w">>)],
      [config |-> MkConfig("parsed", "", <<>>, <<>>), summary |-> "s2",
       affected_tracts |-> <<>>, warnings |-> None] }

\* what a rejected promise may carry: an Error with a message, or another value
Failures ==
    { [isError |-> TRUE, message |-> "Network Error"],
      [isError |-> FALSE, message |-> ""] }

\* err.message taken whatever was thrown
ErrMessageNoFallback(err, fallback) == err.message

\* err instanceof Error ? err.message : fallback
ErrMessage(err, fallback) == IF err.isError THEN err.message ELSE fallback

\* InterpretationEntry; summary / warnings are optional fields
UserEntry(text) ==
    [role |-> "user", text |-> text, summary |-> None, warnings |-> None]
SystemEntry(text, summary, warnings) ==
    [role |-> "system", text |-> text, summary |-> Some(summary),
     warnings |-> warnings]

\* SimulationStatus
MkStatus(id, st, p, cs, ts) ==
    [run_id |-> id, status |-> st, progress |-> p, current_step |-> cs,
     total_steps |-> ts]

Terminal(st) == st = "completed" \/ st = "failed"

\* JavaScript's a || b || c on strings
Or3(a, b, c) == IF a # "" THEN a ELSE IF b # "" THEN b ELSE c

\* requests in flight are bags: two identical requests are two requests
One(x) == SetToBag({x})

-----------------------------------------------------------------------------
(* State *)

VARIABLES
    \* useSimulation: React state
    config, summary, warnings, affectedTracts, runId, status, progress,
    isLoading, error, history,
    \* useSimulation: pollRef and the browser's interval timers created by
    \* pollStatus (timer id -> run id of its closure), the live ones
    pollRef, pollTimers, pollLive,
    \* requests of useSimulation in flight
    parseReqs, launchReqs, pollReqs,
    \* the simulation service: launched runs and their state
    svc,
    \* useMapData: React state, the base geometry request, the result
    \* fetches in flight (each with its AbortController: aborted, and whether
    \* abortRef holds it), the props of the last render
    baseGeoJSON, mergedGeoJSON, mapIsLoading, baseFetch, fetches,
    mapRunId, mapTimestep,
    \* useWebSocket: the sockets not yet closed or still held by wsRef (run id
    \* of the address, readyState, whether wsRef holds it), React state, the
    \* prop of the last render
    sockets, isConnected, lastMessage, wsRunId,
    \* App.currentTimestep and TimeControl: React state, the interval timers
    \* of play() (period, whether intervalRef holds it), the disabled prop
    currentTimestep, isPlaying, speed, playTimers, disabled,
    \* whether the App is mounted
    mounted,
    \* observation: run ids for which a terminal poll response was applied,
    \* number of times each poll timer went from live to cancelled
    terminalApplied, cancelCount,
    \* observation: the last operation of TimeControl when it is driven alone,
    \* the last failed poll or the last payload pushed
    lastOp,
    \* observation: the last message handed to App.handleWSMessage
    observed,
    \* the merge of fetchAndMerge and the fill colour of createTractLayer,
    \* each applied on its own: the arguments and, once applied, the result
    mergeIo, fillIo

simState == <<config, summary, warnings, affectedTracts, runId, status,
              progress, isLoading, error, history>>
simVars == <<simState, pollRef, pollTimers, pollLive, parseReqs, launchReqs,
             pollReqs, svc, terminalApplied, cancelCount>>

mapVars == <<baseGeoJSON, mergedGeoJSON, mapIsLoading, baseFetch, fetches,
             mapRunId, mapTimestep>>
wsVars == <<sockets, isConnected, lastMessage, wsRunId>>
tcVars == <<currentTimestep, isPlaying, speed, playTimers, disabled>>

fnVars == <<mergeIo, fillIo>>

vars == <<simVars, mapVars, wsVars, tcVars, mounted, lastOp, observed, fnVars>>

-----------------------------------------------------------------------------
(* useSimulation *)

SimInit ==
    /\ config = None
    /\ summary = ""
    /\ warnings = <<>>
    /\ affectedTracts = <<>>
    /\ runId = NullId
    /\ status = None
    /\ progress = 0
    /\ isLoading = FALSE
    /\ error = None
    /\ history = <<>>
    /\ pollRef = 0
    /\ pollTimers = <<>>
    /\ pollLive = {}
    /\ parseReqs = EmptyBag
    /\ launchReqs = 0
    /\ pollReqs = EmptyBag
    /\ svc = <<>>
    /\ terminalApplied = {}
    /\ cancelCount = <<>>

\* clearInterval(t): cancelling a timer that is not live does nothing
ClearInterval(t, live) == live \ {t}
Cancelled(t, live, cnt) ==
    IF t \in live THEN [cnt EXCEPT ![t] = @ + 1] ELSE cnt

\* a React state setter: ignored once the component is unmounted
SetState(new, old) == IF mounted THEN new ELSE old

\* applyParseResponse(res, userText) replacing the history by the two entries
applyParseResponseReplace(res, userText) ==
    /\ config' = SetState(Some(res.config), config)
    /\ summary' = SetState(res.summary, summary)
    /\ warnings' = SetState(IF IsNull(res.warnings) THEN <<>> ELSE Val(res.warnings),
                           warnings)
    /\ affectedTracts' = SetState(res.affected_tracts, affectedTracts)
    /\ history' = SetState(<< UserEntry(userText),
                              SystemEntry(res.summary, res.summary,
                                          res.warnings) >>,
                           history)

\* applyParseResponse(res, userText)
applyParseResponse(res, userText) ==
    /\ config' = SetState(Some(res.config), config)
    /\ summary' = SetState(res.summary, summary)
    /\ warnings' = SetState(IF IsNull(res.warnings) THEN <<>> ELSE Val(res.warnings),
                           warnings)
    /\ affectedTracts' = SetState(res.affected_tracts, affectedTracts)
    /\ history' = SetState(history \o << UserEntry(userText),
                                        SystemEntry(res.summary, res.summary,
                                                    res.warnings) >>,
                           history)

\* the history stays within MaxHistory when the requests in flight and one
\* more are answered
HistoryRoom == Len(history) + 2 * (BagCardinality(parseReqs) + 1) <= MaxHistory

\* parsePolicy(text), up to the await
ParsePolicy(text) ==
    /\ mounted
    /\ HistoryRoom
    /\ isLoading' = TRUE
    /\ error' = None
    /\ parseReqs' = parseReqs (+) One([kind |-> "parse", text |-> text])
    /\ UNCHANGED <<config, summary, warnings, affectedTracts, runId, status,
                   progress, history, pollRef, pollTimers, pollLive, launchReqs,
                   pollReqs, svc, terminalApplied, cancelCount>>

\* refinePolicy(text) without the `if (!config) return`
RefinePolicyNoGuard(text) ==
    /\ mounted
    /\ HistoryRoom
    /\ isLoading' = TRUE
    /\ error' = None
    /\ parseReqs' = parseReqs (+) One([kind |-> "refine", text |-> text])
    /\ UNCHANGED <<config, summary, warnings, affectedTracts, runId,
                   status, progress, history, pollRef, pollTimers,
                   pollLive, launchReqs, pollReqs, svc,
                   terminalApplied, cancelCount>>

\* refinePolicy(text), up to the await; a no-op without a config
RefinePolicy(text) ==
    /\ mounted
    /\ HistoryRoom
    /\ IF IsNull(config)
       THEN UNCHANGED simVars
       ELSE /\ isLoading' = TRUE
            /\ error' = None
            /\ parseReqs' = parseReqs (+) One([kind |-> "refine", text |-> text])
            /\ UNCHANGED <<config, summary, warnings, affectedTracts, runId,
                           status, progress, history, pollRef, pollTimers,
                           pollLive, launchReqs, pollReqs, svc,
                           terminalApplied, cancelCount>>

\* parsePolicy / refinePolicy after the await: the request resolved with res
ParseResolved(req, res) ==
    /\ BagIn(req, parseReqs)
    /\ parseReqs' = parseReqs (-) One(req)
    /\ applyParseResponse(res, req.text)
    /\ isLoading' = SetState(FALSE, isLoading)
    /\ UNCHANGED <<runId, status, progress, error, pollRef, pollTimers, pollLive,
                   launchReqs, pollReqs, svc,
                   terminalApplied, cancelCount>>

\* parsePolicy / refinePolicy after the await: the request was rejected
ParseRejected(req, err) ==
    /\ BagIn(req, parseReqs)
    /\ parseReqs' = parseReqs (-) One(req)
    /\ error' = SetState(Some(ErrMessage(err, IF req.kind = "parse"
                                               THEN "Failed to parse policy"
                                               ELSE "Failed to refine policy")),
                         error)
    /\ isLoading' = SetState(FALSE, isLoading)
    /\ UNCHANGED <<config, summary, warnings, affectedTracts, runId, status,
                   progress, history, pollRef, pollTimers, pollLive, launchReqs,
                   pollReqs, svc, terminalApplied,
                   cancelCount>>

\* pollStatus(id) without the clearInterval of the timer pollRef holds
pollStatusNoCancel(id) ==
    /\ pollTimers' = Append(pollTimers, id)
    /\ pollRef' = Len(pollTimers) + 1
    /\ pollLive' = pollLive \cup {Len(pollTimers) + 1}
    /\ cancelCount' = Append(cancelCount, 0)

\* pollStatus(id): cancel the timer pollRef holds, create the timer of id
pollStatus(id) ==
    /\ pollTimers' = Append(pollTimers, id)
    /\ pollRef' = Len(pollTimers) + 1
    /\ pollLive' = ClearInterval(pollRef, pollLive) \cup {Len(pollTimers) + 1}
    /\ cancelCount' = Append(Cancelled(pollRef, pollLive, cancelCount), 0)

\* the status the service reports for run r
Snapshot(r) ==
    MkStatus(r, svc[r].status, svc[r].progress, svc[r].progress, TOTAL_STEPS)

\* the interval callback of timer t up to the await: the status request of
\* the timer's run id is sent; the service answers it from its state now and
\* the answer travels for an arbitrary time
PollTick(t) ==
    /\ t \in pollLive
    /\ BagCardinality(pollReqs) < MaxPollsInFlight
    /\ pollReqs' = pollReqs (+)
         One([run |-> pollTimers[t], s |-> Snapshot(pollTimers[t])])
    /\ UNCHANGED <<simState, pollRef, pollTimers, pollLive, parseReqs,
                   launchReqs, svc, terminalApplied,
                   cancelCount>>

\* a status that ends polling: only "completed"
StopsPollingCompletedOnly(s) == s.status = "completed"

\* a status that ends polling
StopsPolling(s) == s.status = "completed" \/ s.status = "failed"

\* the interval callback after the await, also clearing the error
PollResolvedClearsError(req) ==
    /\ BagIn(req, pollReqs)
    /\ pollReqs' = pollReqs (-) One(req)
    /\ status' = SetState(Some(req.s), status)
    /\ progress' = SetState(req.s.progress, progress)
    /\ error' = SetState(None, error)
    /\ IF StopsPolling(req.s)
       THEN /\ pollLive' = ClearInterval(pollRef, pollLive)
            /\ cancelCount' = Cancelled(pollRef, pollLive, cancelCount)
            /\ pollRef' = 0
       ELSE UNCHANGED <<pollLive, cancelCount, pollRef>>
    /\ terminalApplied' = IF Terminal(req.s.status)
                          THEN terminalApplied \cup {req.run}
                          ELSE terminalApplied
    /\ UNCHANGED <<config, summary, warnings, affectedTracts, runId, isLoading,
                   history, pollTimers, parseReqs, launchReqs, svc>>

\* the interval callback after the await: getSimulationStatus resolved
PollResolved(req) ==
    /\ BagIn(req, pollReqs)
    /\ pollReqs' = pollReqs (-) One(req)
    /\ status' = SetState(Some(req.s), status)
    /\ progress' = SetState(req.s.progress, progress)
    /\ IF StopsPolling(req.s)
       THEN /\ pollLive' = ClearInterval(pollRef, pollLive)
            /\ cancelCount' = Cancelled(pollRef, pollLive, cancelCount)
            /\ pollRef' = 0
       ELSE UNCHANGED <<pollLive, cancelCount, pollRef>>
    /\ terminalApplied' = IF Terminal(req.s.status)
                          THEN terminalApplied \cup {req.run}
                          ELSE terminalApplied
    /\ UNCHANGED <<config, summary, warnings, affectedTracts, runId, isLoading,
                   error, history, pollTimers, parseReqs, launchReqs, svc>>

\* the catch block tearing the poll down and reporting the failure
PollRejectedStops(req) ==
    /\ BagIn(req, pollReqs)
    /\ pollReqs' = pollReqs (-) One(req)
    /\ error' = SetState(Some("Failed to poll status"), error)
    /\ pollLive' = ClearInterval(pollRef, pollLive)
    /\ cancelCount' = Cancelled(pollRef, pollLive, cancelCount)
    /\ pollRef' = 0
    /\ UNCHANGED <<config, summary, warnings, affectedTracts, runId, status,
                   progress, isLoading, history, pollTimers, parseReqs,
                   launchReqs, svc, terminalApplied>>

\* the interval callback after the await: getSimulationStatus was rejected
PollRejected(req) ==
    /\ BagIn(req, pollReqs)
    /\ pollReqs' = pollReqs (-) One(req)
    /\ UNCHANGED <<simState, pollRef, pollTimers, pollLive, parseReqs,
                   launchReqs, svc, terminalApplied,
                   cancelCount>>

\* startSimulation(), up to the await; a no-op without a config
StartSimulation ==
    /\ mounted
    /\ Len(svc) + launchReqs < MaxLaunches
    /\ IF IsNull(config)
       THEN UNCHANGED simVars
       ELSE /\ isLoading' = TRUE
            /\ error' = None
            /\ launchReqs' = launchReqs + 1
            /\ UNCHANGED <<config, summary, warnings, affectedTracts, runId,
                           status, progress, history, pollRef, pollTimers,
                           pollLive, parseReqs, pollReqs, svc,
                           terminalApplied, cancelCount>>

\* startSimulation() after the await: the service created a run and
\* apiRunSimulation resolved with its id (unique per launch)
LaunchResolved ==
    /\ launchReqs > 0
    /\ launchReqs' = launchReqs - 1
    /\ LET id == Len(svc) + 1 IN
         /\ svc' = Append(svc, [status |-> "pending", progress |-> 0])
         /\ runId' = SetState(id, runId)
         /\ status' = SetState(Some(MkStatus(id, "pending", 0, 0, TOTAL_STEPS)),
                               status)
         /\ pollStatus(id)
    /\ isLoading' = SetState(FALSE, isLoading)
    /\ UNCHANGED <<config, summary, warnings, affectedTracts, progress, error,
                   history, parseReqs, pollReqs,
                   terminalApplied>>

\* startSimulation() after the await: apiRunSimulation was rejected
LaunchRejected(err) ==
    /\ launchReqs > 0
    /\ launchReqs' = launchReqs - 1
    /\ error' = SetState(Some(ErrMessage(err, "Failed to start simulation")), error)
    /\ isLoading' = SetState(FALSE, isLoading)
    /\ UNCHANGED <<config, summary, warnings, affectedTracts, runId, status,
                   progress, history, pollRef, pollTimers, pollLive, parseReqs,
                   pollReqs, svc, terminalApplied,
                   cancelCount>>

\* selectScenario(scenarioConfig) appending its entry to the history
selectScenarioAppend(scenarioConfig) ==
    /\ mounted
    /\ config' = Some(scenarioConfig)
    /\ summary' = Or3(scenarioConfig.description, scenarioConfig.name,
                      "Predefined scenario selected")
    /\ warnings' = <<>>
    /\ affectedTracts' = scenarioConfig.target_tract_ids
                           \o scenarioConfig.enforcement_target_tracts
    /\ history' = Append(history,
                         [role |-> "system",
                          text |-> Or3(scenarioConfig.description,
                                       scenarioConfig.name,
                                       "Predefined scenario loaded"),
                          summary |-> Some(Or3(scenarioConfig.description,
                                               scenarioConfig.name, "")),
                          warnings |-> None])
    /\ runId' = NullId
    /\ status' = None
    /\ progress' = 0
    /\ error' = None
    /\ UNCHANGED <<isLoading, pollRef, pollTimers, pollLive, parseReqs,
                   launchReqs, pollReqs, svc, terminalApplied, cancelCount>>

\* selectScenario(scenarioConfig)
selectScenario(scenarioConfig) ==
    /\ mounted
    /\ config' = Some(scenarioConfig)
    /\ summary' = Or3(scenarioConfig.description, scenarioConfig.name,
                      "Predefined scenario selected")
    /\ warnings' = <<>>
    /\ affectedTracts' = scenarioConfig.target_tract_ids
                           \o scenarioConfig.enforcement_target_tracts
    /\ history' = << [role |-> "system",
                      text |-> Or3(scenarioConfig.description,
                                   scenarioConfig.name,
                                   "Predefined scenario loaded"),
                      summary |-> Some(Or3(scenarioConfig.description,
                                           scenarioConfig.name, "")),
                      warnings |-> None] >>
    /\ runId' = NullId
    /\ status' = None
    /\ progress' = 0
    /\ error' = None
    /\ UNCHANGED <<isLoading, pollRef, pollTimers, pollLive, parseReqs,
                   launchReqs, pollReqs, svc,
                   terminalApplied, cancelCount>>

\* reset() without the clearInterval
resetNoClear ==
    /\ mounted
    /\ config' = None
    /\ summary' = ""
    /\ warnings' = <<>>
    /\ affectedTracts' = <<>>
    /\ runId' = NullId
    /\ status' = None
    /\ progress' = 0
    /\ error' = None
    /\ history' = <<>>
    /\ UNCHANGED <<isLoading, pollRef, pollTimers, pollLive, cancelCount,
                   parseReqs, launchReqs, pollReqs, svc, terminalApplied>>

\* reset()
reset ==
    /\ mounted
    /\ pollLive' = ClearInterval(pollRef, pollLive)
    /\ cancelCount' = Cancelled(pollRef, pollLive, cancelCount)
    /\ config' = None
    /\ summary' = ""
    /\ warnings' = <<>>
    /\ affectedTracts' = <<>>
    /\ runId' = NullId
    /\ status' = None
    /\ progress' = 0
    /\ error' = None
    /\ history' = <<>>
    /\ UNCHANGED <<isLoading, pollRef, pollTimers, parseReqs, launchReqs,
                   pollReqs, svc, terminalApplied>>

\* the simulation engine works on run r: pending -> running, progress grows
\* while running, running -> completed or failed
SvcAdvance(r) ==
    /\ r \in 1..Len(svc)
    /\ \/ /\ svc[r].status = "pending"
          /\ svc' = [svc EXCEPT ![r].status = "running"]
       \/ /\ svc[r].status = "running"
          /\ svc[r].progress < MaxProgress
          /\ svc' = [svc EXCEPT ![r].progress = @ + 1]
       \/ /\ svc[r].status = "running"
          /\ \E st \in {"completed", "failed"} :
               svc' = [svc EXCEPT ![r].status = st]
    /\ UNCHANGED <<simState, pollRef, pollTimers, pollLive, parseReqs,
                   launchReqs, pollReqs, terminalApplied,
                   cancelCount>>

-----------------------------------------------------------------------------
(* useMapData *)

\* the base tract geometries the server holds: a feature with the primary
\* identifier, one with only the secondary identifier
BaseGeometry ==
    << [geometry |-> "gA",
        properties |-> ("tract_id" :> "A") @@ ("population" :> 7)],
       [geometry |-> "gB",
        properties |-> ("GEOID" :> "B")] >>

\* what getTractResults(rid, ts) answers
Results(rid, ts) ==
    << [tract_id |-> "A", properties |-> ("population" :> 100 * rid + ts)] >>

\* { ...b, ...a }: the spreads in the other order
OverlayFirstWins(a, b) ==
    [k \in DOMAIN a \cup DOMAIN b |-> IF k \in DOMAIN a THEN a[k] ELSE b[k]]

\* { ...a, ...b }
Overlay(a, b) ==
    [k \in DOMAIN a \cup DOMAIN b |-> IF k \in DOMAIN b THEN b[k] ELSE a[k]]

\* String(f.properties?.tract_id ?? f.properties?.GEOID ?? ""); identifiers
\* are strings here, which String() returns as they are
JoinKey(f) ==
    IF "tract_id" \in DOMAIN f.properties THEN f.properties["tract_id"]
    ELSE IF "GEOID" \in DOMAIN f.properties THEN f.properties["GEOID"]
    ELSE ""

\* resultMap.get(tractId): the properties of the last result with that id
ResultProps(results, tractId) ==
    LET idx == {i \in 1..Len(results) : results[i].tract_id = tractId} IN
    IF idx = {} THEN None
    ELSE Some(results[CHOOSE i \in idx : \A j \in idx : j <= i].properties)

\* features.filter(...) in place of features.map(...): only the features a
\* result was found for
MergeMatchedOnly(base, results) ==
    LET annotated ==
          [i \in 1..Len(base) |->
              LET rp == ResultProps(results, JoinKey(base[i])) IN
              [geometry |-> base[i].geometry,
               properties |->
                  Overlay(Overlay(base[i].properties,
                                  IF IsNull(rp) THEN <<>> ELSE Val(rp)),
                          "_hasResult" :> ~IsNull(rp))]]
    IN SelectSeq(annotated, LAMBDA f : f.properties["_hasResult"])

\* the merged feature collection
Merge(base, results) ==
    [i \in 1..Len(base) |->
        LET rp == ResultProps(results, JoinKey(base[i])) IN
        [geometry |-> base[i].geometry,
         properties |->
            Overlay(Overlay(base[i].properties,
                            IF IsNull(rp) THEN <<>> ELSE Val(rp)),
                    "_hasResult" :> ~IsNull(rp))]]

\* a controller that was aborted and that abortRef no longer holds
Retire(f) == [f EXCEPT !.aborted = TRUE, !.current = FALSE]

\* abortRef is replaced without aborting the controller it held
ForgetCurrent(fs) ==
    LET cur == {f \in BagToSet(fs) : f.current} IN
    IF cur = {} THEN fs
    ELSE LET f == CHOOSE f \in cur : TRUE IN
         (fs (-) One(f)) (+) One([f EXCEPT !.current = FALSE])

\* if (abortRef.current) abortRef.current.abort(), before abortRef is replaced
AbortCurrent(fs) ==
    LET cur == {f \in BagToSet(fs) : f.current} IN
    IF cur = {} THEN fs
    ELSE LET f == CHOOSE f \in cur : TRUE IN
         (fs (-) One(f)) (+) One(Retire(f))

\* fetchAndMerge(rid, ts) up to the await, with `base` the baseGeoJSON of the
\* render that created the callback; `prior` records the mergedGeoJSON of
\* that render, the value held when the request is issued
fetchAndMerge(base, rid, ts) ==
    IF IsNull(base)
    THEN UNCHANGED <<fetches, mapIsLoading>>
    ELSE /\ BagCardinality(fetches) < MaxFetchesInFlight
         /\ fetches' = AbortCurrent(fetches) (+)
               One([rid |-> rid, ts |-> ts, aborted |-> FALSE, current |-> TRUE,
                    prior |-> mergedGeoJSON'])
         /\ mapIsLoading' = TRUE

\* the host renders useMapData(rid, ts): the effect runs when a prop changed
MapRender(rid, ts) ==
    IF ~mounted \/ <<rid, ts>> = <<mapRunId, mapTimestep>>
    THEN UNCHANGED mapVars
    ELSE /\ mapRunId' = rid
         /\ mapTimestep' = ts
         /\ IF rid # NullId
            THEN UNCHANGED mergedGeoJSON /\ fetchAndMerge(baseGeoJSON, rid, ts)
            ELSE /\ mergedGeoJSON' = IF IsNull(baseGeoJSON) THEN mergedGeoJSON
                                                           ELSE baseGeoJSON
                 /\ UNCHANGED <<fetches, mapIsLoading>>
         /\ UNCHANGED <<baseGeoJSON, baseFetch>>

\* the base geometry request resolved; baseGeoJSON changed, so the effect runs
BaseLoaded ==
    /\ baseFetch = "pending"
    /\ baseFetch' = "done"
    /\ baseGeoJSON' = Some(BaseGeometry)
    /\ mergedGeoJSON' = Some(BaseGeometry)
    /\ IF mapRunId # NullId
       THEN fetchAndMerge(Some(BaseGeometry), mapRunId, mapTimestep)
       ELSE UNCHANGED <<fetches, mapIsLoading>>
    /\ UNCHANGED <<mapRunId, mapTimestep>>

\* the base geometry request failed: logged
BaseFailed ==
    /\ baseFetch = "pending"
    /\ baseFetch' = "failed"
    /\ UNCHANGED <<baseGeoJSON, mergedGeoJSON, mapIsLoading, fetches, mapRunId,
                   mapTimestep>>

\* fetchAndMerge after the await: getTractResults resolved
FetchResolved(f) ==
    /\ BagIn(f, fetches)
    /\ fetches' = fetches (-) One(f)
    /\ mergedGeoJSON' =
          IF ~f.aborted
          THEN SetState(Some(Merge(Val(baseGeoJSON), Results(f.rid, f.ts))),
                        mergedGeoJSON)
          ELSE mergedGeoJSON
    /\ mapIsLoading' = SetState(FALSE, mapIsLoading)
    /\ UNCHANGED <<baseGeoJSON, baseFetch, mapRunId, mapTimestep>>

\* the catch block falling back to the base geometry
FetchRejectedFallsBack(f) ==
    /\ BagIn(f, fetches)
    /\ fetches' = fetches (-) One(f)
    /\ mapIsLoading' = SetState(FALSE, mapIsLoading)
    /\ mergedGeoJSON' = SetState(baseGeoJSON, mergedGeoJSON)
    /\ UNCHANGED <<baseGeoJSON, baseFetch, mapRunId, mapTimestep>>

\* fetchAndMerge after the await: getTractResults was rejected; the request
\* is not given the controller's signal, so the failure is never an abort
FetchRejected(f) ==
    /\ BagIn(f, fetches)
    /\ fetches' = fetches (-) One(f)
    /\ mapIsLoading' = SetState(FALSE, mapIsLoading)
    /\ UNCHANGED <<baseGeoJSON, mergedGeoJSON, baseFetch, mapRunId, mapTimestep>>

MapInit ==
    /\ baseGeoJSON = None
    /\ mergedGeoJSON = None
    /\ mapIsLoading = FALSE
    /\ baseFetch = "pending"
    /\ fetches = EmptyBag
    /\ mapRunId = NullId
    /\ mapTimestep = 0

-----------------------------------------------------------------------------
(* useWebSocket *)

\* messages the server may push: a decodable one, a malformed payload
Payloads ==
    { [ok |-> TRUE, msg |-> [type |-> "progress", progress |-> 1]],
      [ok |-> FALSE, msg |-> [type |-> "", progress |-> 0]] }

\* ws.close(): an opening or open socket starts closing
CloseSocket(k) ==
    IF k.state \in {"connecting", "open"} THEN [k EXCEPT !.state = "closing"] ELSE k

\* wsRef.current.close() and wsRef.current = <something else>: a closed socket
\* nothing refers to any more is dropped
Release(ss) ==
    LET cur == {k \in BagToSet(ss) : k.current} IN
    IF cur = {} THEN ss
    ELSE LET k == CHOOSE k \in cur : TRUE IN
         IF k.state = "closed"
         THEN ss (-) One(k)
         ELSE (ss (-) One(k)) (+) One([CloseSocket(k) EXCEPT !.current = FALSE])

\* the sockets after the effect of a render with run id `rid`: the cleanup of
\* the previous effect (disconnect), then connect(rid) or disconnect()
Reconnect(ss, rid) ==
    IF rid # NullId
    THEN Release(ss) (+) One([run |-> rid, state |-> "connecting", current |-> TRUE])
    ELSE Release(ss)

\* the sockets that are not closed
Channels(ss) == {k \in BagToSet(ss) : k.state # "closed"}

\* the host renders useWebSocket(rid, onMessage): the effect runs when the
\* run id changed
WsRender(rid) ==
    IF ~mounted \/ rid = wsRunId
    THEN UNCHANGED wsVars
    ELSE /\ wsRunId' = rid
         /\ sockets' = Reconnect(sockets, rid)
         /\ BagCardinality(sockets') <= MaxSockets
         /\ isConnected' = FALSE
         /\ UNCHANGED lastMessage

\* ws.onopen
WsOpened(k) ==
    /\ BagIn(k, sockets) /\ k.state = "connecting"
    /\ sockets' = (sockets (-) One(k)) (+) One([k EXCEPT !.state = "open"])
    /\ isConnected' = SetState(TRUE, isConnected)
    /\ UNCHANGED <<lastMessage, wsRunId>>

\* ws.onerror / ws.onclose of a socket the client did not close: the
\* connection failed or was lost; wsRef keeps the closed socket
WsLost(k) ==
    /\ BagIn(k, sockets) /\ k.state \in {"connecting", "open"}
    /\ sockets' = (sockets (-) One(k)) (+) One([k EXCEPT !.state = "closed"])
    /\ isConnected' = SetState(FALSE, isConnected)
    /\ UNCHANGED <<lastMessage, wsRunId>>

\* ws.onclose of a socket the client closed
WsClosed(k) ==
    /\ BagIn(k, sockets) /\ k.state = "closing"
    /\ sockets' = sockets (-) One(k)
    /\ isConnected' = SetState(FALSE, isConnected)
    /\ UNCHANGED <<lastMessage, wsRunId>>

\* ws.onmessage keeping what it received whether or not it decodes
WsMessageKeepsUndecoded(k, payload) ==
    /\ BagIn(k, sockets) /\ k.state = "open"
    /\ lastMessage' = SetState(Some(payload.msg), lastMessage)
    /\ UNCHANGED <<sockets, isConnected, wsRunId>>

\* ws.onmessage: JSON.parse, setLastMessage, onMessage (App.handleWSMessage
\* changes nothing)
WsMessage(k, payload) ==
    /\ BagIn(k, sockets) /\ k.state = "open"
    /\ lastMessage' = IF payload.ok THEN SetState(Some(payload.msg), lastMessage)
                                    ELSE lastMessage
    /\ UNCHANGED <<sockets, isConnected, wsRunId>>

WsInit ==
    /\ sockets = EmptyBag
    /\ isConnected = FALSE
    /\ lastMessage = None
    /\ wsRunId = NullId

-----------------------------------------------------------------------------
(* TimeControl *)

MAX_STEP == 26
Speeds == {1, 2, 5}

Max(a, b) == IF a >= b THEN a ELSE b

\* Math.max(50, 500 / speed); 500 / speed is whole for every speed offered
Period(sp) == Max(50, 500 \div sp)

\* stop(): clearInterval(intervalRef.current), intervalRef.current = null
Stopped(ts) == {t \in ts : ~t.current}

\* stop()
stop ==
    /\ playTimers' = Stopped(playTimers)
    /\ isPlaying' = FALSE

\* play() without the stop() of the interval intervalRef holds
playNoStop(sp) ==
    /\ playTimers' = {[t EXCEPT !.current = FALSE] : t \in playTimers}
                        \cup {[ms |-> Period(sp), current |-> TRUE]}
    /\ isPlaying' = TRUE

\* play() with the speed of the render that created the callback
play(sp) ==
    /\ playTimers' = Stopped(playTimers) \cup {[ms |-> Period(sp), current |-> TRUE]}
    /\ isPlaying' = TRUE

\* handleTogglePlay (the button is disabled while `disabled`)
TogglePlay ==
    /\ mounted /\ ~disabled
    /\ IF isPlaying THEN stop ELSE play(speed)
    /\ UNCHANGED <<currentTimestep, speed, disabled>>

\* handleReset (the button is disabled while `disabled`)
HandleReset ==
    /\ mounted /\ ~disabled
    /\ stop
    /\ currentTimestep' = 0
    /\ UNCHANGED <<speed, disabled>>

\* the slider's onChange (the slider is disabled while `disabled`)
SliderChange(val) ==
    /\ mounted /\ ~disabled
    /\ val # currentTimestep
    /\ currentTimestep' = val
    /\ UNCHANGED <<isPlaying, speed, playTimers, disabled>>

\* the speed toggle's onChange and the [speed] effect
SetSpeed(val) ==
    /\ mounted
    /\ val # speed
    /\ speed' = val
    /\ IF isPlaying THEN play(val) ELSE UNCHANGED <<isPlaying, playTimers>>
    /\ UNCHANGED <<currentTimestep, disabled>>

\* the host renders TimeControl with another `disabled` prop: the buttons and
\* the slider follow it, nothing else does
SetDisabled(b) ==
    /\ mounted
    /\ b # disabled
    /\ disabled' = b
    /\ UNCHANGED <<currentTimestep, isPlaying, speed, playTimers>>

\* the interval callback comparing the current step, not the next one, with
\* MAX_STEP
PlayTickOffByOne(t) ==
    /\ t \in playTimers
    /\ IF currentTimestep > MAX_STEP
       THEN stop /\ UNCHANGED currentTimestep
       ELSE /\ currentTimestep' = SetState(currentTimestep + 1, currentTimestep)
            /\ UNCHANGED <<isPlaying, playTimers>>
    /\ UNCHANGED <<speed, disabled>>

\* the interval callback advancing by `speed` steps per tick
PlayTickStride(t) ==
    /\ t \in playTimers
    /\ IF currentTimestep + speed > MAX_STEP
       THEN stop /\ UNCHANGED currentTimestep
       ELSE /\ currentTimestep' = SetState(currentTimestep + speed, currentTimestep)
            /\ UNCHANGED <<isPlaying, playTimers>>
    /\ UNCHANGED <<speed, disabled>>

\* the interval callback of timer t; stepRef.current is the currentTimestep
\* of the last render
PlayTick(t) ==
    /\ t \in playTimers
    /\ IF currentTimestep + 1 > MAX_STEP
       THEN stop /\ UNCHANGED currentTimestep
       ELSE /\ currentTimestep' = SetState(currentTimestep + 1, currentTimestep)
            /\ UNCHANGED <<isPlaying, playTimers>>
    /\ UNCHANGED <<speed, disabled>>

TcInit ==
    /\ currentTimestep = 0
    /\ isPlaying = FALSE
    /\ speed = 1
    /\ playTimers = {}
    /\ disabled = TRUE

-----------------------------------------------------------------------------
(* App *)

\* sim.status?.status === which ? sim.runId : null
RunIdWhen(st, rid, which) ==
    IF \E s \in st : s.status = which THEN rid ELSE NullId

\* the render after a step of useSimulation: the props of the other hooks
\* follow sim.status and sim.runId
AfterSim ==
    /\ MapRender(RunIdWhen(status', runId', "completed"), currentTimestep)
    /\ WsRender(RunIdWhen(status', runId', "running"))
    /\ disabled' = IF mounted THEN ~(\E s \in status' : s.status = "completed")
                              ELSE disabled
    /\ UNCHANGED <<currentTimestep, isPlaying, speed, playTimers, mounted,
                   lastOp, observed, fnVars>>

\* the render after a step of TimeControl: useMapData sees the new timestep
AfterTc ==
    /\ MapRender(mapRunId, currentTimestep')
    /\ UNCHANGED <<simVars, wsVars, mounted, lastOp, observed, fnVars>>

\* the App unmounts: the cleanups of the effects run (the base geometry
\* request is aborted, disconnect(), stop()); useSimulation and fetchAndMerge
\* have none
Unmount ==
    /\ mounted
    /\ mounted' = FALSE
    /\ baseFetch' = IF baseFetch = "pending" THEN "aborted" ELSE baseFetch
    /\ sockets' = Release(sockets)
    /\ stop
    /\ UNCHANGED <<simVars, baseGeoJSON, mergedGeoJSON, mapIsLoading, fetches,
                   mapRunId, mapTimestep, isConnected, lastMessage, wsRunId,
                   currentTimestep, speed, disabled>>

\* App.handleWSMessage writing the pushed progress into the run state
handleWSMessageSetsProgress(msg) ==
    /\ observed' = Some(msg)
    /\ progress' = msg.progress
    /\ UNCHANGED <<config, summary, warnings, affectedTracts, runId, status,
                   isLoading, error, history, pollRef, pollTimers, pollLive,
                   parseReqs, launchReqs, pollReqs, svc, terminalApplied,
                   cancelCount>>

\* App.handleWSMessage(msg): the observer useWebSocket is given; its body
\* is empty
handleWSMessage(msg) ==
    /\ observed' = Some(msg)
    /\ UNCHANGED simVars

\* a payload arrives on socket k: ws.onmessage with its onMessage?.(msg),
\* which a payload that does not decode never reaches
WsDeliver(k, payload) ==
    /\ WsMessage(k, payload)
    /\ IF payload.ok THEN handleWSMessage(payload.msg)
                     ELSE UNCHANGED <<simVars, observed>>

-----------------------------------------------------------------------------
(* Specifications *)

CoreInit ==
    /\ SimInit /\ MapInit /\ WsInit /\ TcInit
    /\ mounted = TRUE /\ lastOp = "none" /\ observed = None

Init == CoreInit /\ mergeIo = None /\ fillIo = None

\* useSimulation on its own, driven through the operations it returns
SimOnly ==
    UNCHANGED <<mapVars, wsVars, tcVars, mounted, lastOp, observed, fnVars>>

SimStep ==
    \/ \E text \in Texts : ParsePolicy(text) /\ SimOnly
    \/ \E text \in Texts : RefinePolicy(text) /\ SimOnly
    \/ \E req \in BagToSet(parseReqs), res \in ParseResponses :
          ParseResolved(req, res) /\ SimOnly
    \/ \E req \in BagToSet(parseReqs), err \in Failures :
          ParseRejected(req, err) /\ SimOnly
    \/ StartSimulation /\ SimOnly
    \/ LaunchResolved /\ SimOnly
    \/ \E err \in Failures : LaunchRejected(err) /\ SimOnly
    \/ \E t \in pollLive : PollTick(t) /\ SimOnly
    \/ \E req \in BagToSet(pollReqs) : PollResolved(req) /\ SimOnly
    \/ \E req \in BagToSet(pollReqs) : PollRejected(req) /\ SimOnly
    \/ \E c \in ScenarioConfigs : selectScenario(c) /\ SimOnly
    \/ reset /\ SimOnly
    \/ \E r \in RunIds : SvcAdvance(r) /\ SimOnly

SpecSim == Init /\ [][SimStep]_vars

\* the run lifecycle of useSimulation: launch, poll, scenario selection,
\* reset; lastOp notes a rejected status request and the first tick after it
RunOnly ==
    UNCHANGED <<mapVars, wsVars, tcVars, mounted, observed, fnVars>>

RunStep ==
    \/ StartSimulation /\ SimOnly
    \/ LaunchResolved /\ SimOnly
    \/ \E err \in Failures : LaunchRejected(err) /\ SimOnly
    \/ \E t \in pollLive :
          /\ PollTick(t)
          /\ lastOp' = IF lastOp = "pollRejected" THEN "tickAfterRejected"
                                                  ELSE lastOp
          /\ RunOnly
    \/ \E req \in BagToSet(pollReqs) : PollResolved(req) /\ SimOnly
    \/ \E req \in BagToSet(pollReqs) :
          PollRejected(req) /\ lastOp' = "pollRejected" /\ RunOnly
    \/ \E c \in ScenarioConfigs : selectScenario(c) /\ SimOnly
    \/ reset /\ SimOnly
    \/ \E r \in RunIds : SvcAdvance(r) /\ SimOnly

SpecRun == Init /\ [][RunStep]_vars

\* useMapData on its own: the host renders it with any run id and timestep;
\* lastOp names the step taken
MapOnly ==
    UNCHANGED <<simVars, wsVars, tcVars, mounted, observed, fnVars>>

MapStep ==
    \/ \E rid \in {NullId} \cup RunIds, ts \in 0..MaxTimestep :
          /\ <<rid, ts>> # <<mapRunId, mapTimestep>>
          /\ MapRender(rid, ts) /\ lastOp' = "render" /\ MapOnly
    \/ BaseLoaded /\ lastOp' = "baseLoaded" /\ MapOnly
    \/ BaseFailed /\ lastOp' = "baseFailed" /\ MapOnly
    \/ \E f \in BagToSet(fetches) :
          FetchResolved(f) /\ lastOp' = "fetchResolved" /\ MapOnly
    \/ \E f \in BagToSet(fetches) :
          FetchRejected(f) /\ lastOp' = "fetchRejected" /\ MapOnly

SpecMap == Init /\ [][MapStep]_vars

\* the App: the hooks composed, the user picking a scenario, launching one
\* run, playing the first MaxTimestep steps of the result back, resetting,
\* leaving
AppScenario == MkConfig("Upzone", "", <<"A">>, <<>>)
MapAlone ==
    UNCHANGED <<simVars, wsVars, tcVars, mounted, lastOp, observed, fnVars>>
WsAlone ==
    UNCHANGED <<simVars, mapVars, tcVars, mounted, lastOp, observed, fnVars>>

AppStep ==
    \/ selectScenario(AppScenario) /\ AfterSim
    \/ Len(svc) + launchReqs = 0 /\ StartSimulation /\ AfterSim
    \/ LaunchResolved /\ AfterSim
    \/ \E t \in pollLive : PollTick(t) /\ AfterSim
    \/ \E req \in BagToSet(pollReqs) : PollResolved(req) /\ AfterSim
    \/ reset /\ AfterSim
    \/ \E r \in RunIds : SvcAdvance(r) /\ AfterSim
    \/ BaseLoaded /\ MapAlone
    \/ BaseFailed /\ MapAlone
    \/ \E f \in BagToSet(fetches) : FetchResolved(f) /\ MapAlone
    \/ \E f \in BagToSet(fetches) : FetchRejected(f) /\ MapAlone
    \/ \E k \in BagToSet(sockets) : WsOpened(k) /\ WsAlone
    \/ \E k \in BagToSet(sockets) : WsLost(k) /\ WsAlone
    \/ \E k \in BagToSet(sockets) : WsClosed(k) /\ WsAlone
    \/ TogglePlay /\ AfterTc
    \/ HandleReset /\ AfterTc
    \/ \E val \in 0..MaxTimestep : SliderChange(val) /\ AfterTc
    \/ \E val \in Speeds : SetSpeed(val) /\ AfterTc
    \/ \E t \in playTimers :
          currentTimestep < MaxTimestep /\ PlayTick(t) /\ AfterTc
    \/ Unmount /\ UNCHANGED <<lastOp, observed, fnVars>>

SpecApp == Init /\ [][AppStep]_vars

\* useSimulation and useWebSocket as App composes them: two runs may be
\* launched, the channel follows status and runId, the server pushes payloads
SimWs ==
    /\ WsRender(RunIdWhen(status', runId', "running"))
    /\ UNCHANGED <<mapVars, tcVars, mounted, lastOp, observed, fnVars>>

PushStep ==
    \/ selectScenario(AppScenario) /\ SimWs
    \/ StartSimulation /\ SimWs
    \/ LaunchResolved /\ SimWs
    \/ \E t \in pollLive : PollTick(t) /\ SimWs
    \/ \E req \in BagToSet(pollReqs) : PollResolved(req) /\ SimWs
    \/ reset /\ SimWs
    \/ \E r \in RunIds : SvcAdvance(r) /\ SimWs
    \/ \E k \in BagToSet(sockets) : WsOpened(k) /\ WsAlone
    \/ \E k \in BagToSet(sockets) : WsLost(k) /\ WsAlone
    \/ \E k \in BagToSet(sockets) : WsClosed(k) /\ WsAlone
    \/ \E k \in BagToSet(sockets), payload \in Payloads :
          /\ WsDeliver(k, payload)
          /\ lastOp' = IF payload.ok THEN "message" ELSE "malformed"
          /\ UNCHANGED <<mapVars, tcVars, mounted, fnVars>>

SpecPush == Init /\ [][PushStep]_vars

\* one run from launch to its end, left alone by the user: a scenario is
\* selected and launched once; every request returns, the interval fires as
\* long as it is live, the engine works until the run is completed or failed
LiveSelect ==
    Len(svc) + launchReqs = 0 /\ selectScenario(AppScenario) /\ SimOnly
LiveStart == Len(svc) + launchReqs = 0 /\ StartSimulation /\ SimOnly
LiveLaunch == LaunchResolved /\ SimOnly
LiveTick == \E t \in pollLive : PollTick(t) /\ SimOnly
LiveReturn(req) == PollResolved(req) /\ SimOnly
LiveService == \E r \in RunIds : SvcAdvance(r) /\ SimOnly

\* the status requests that can be in flight
StatusRequests ==
    {[run |-> r, s |-> MkStatus(r, st, p, p, TOTAL_STEPS)] :
        r \in RunIds, st \in {"pending", "running", "completed", "failed"},
        p \in 0..MaxProgress}

LiveStep ==
    \/ LiveSelect
    \/ LiveStart
    \/ LiveLaunch
    \/ LiveTick
    \/ \E req \in BagToSet(pollReqs) : LiveReturn(req)
    \/ LiveService

LiveFairness ==
    /\ WF_vars(LiveLaunch)
    /\ WF_vars(LiveTick)
    /\ WF_vars(LiveService)
    /\ \A req \in StatusRequests : WF_vars(LiveReturn(req))

SpecLive == Init /\ [][LiveStep]_vars /\ LiveFairness

\* the merge of fetchAndMerge as a function of the base geometry and the
\* result set: every pair within the bounds is an input, and the scenario
\* of five tracts with results for two of them
MaxBaseLen == 2
MaxResultLen == 2

\* features: with the primary identifier, with only the secondary one, with
\* both, with neither, with an empty primary identifier
MergeFeatures ==
    { [geometry |-> "gA",
       properties |-> ("tract_id" :> "A") @@ ("population" :> 7)],
      [geometry |-> "gB",
       properties |-> ("GEOID" :> "B")],
      [geometry |-> "gC",
       properties |-> ("tract_id" :> "C") @@ ("GEOID" :> "A")],
      [geometry |-> "gN",
       properties |-> ("population" :> 3)],
      [geometry |-> "gE",
       properties |-> ("tract_id" :> "") @@ ("GEOID" :> "B")] }

\* results: TractResult { tract_id: string; properties }
MergeResults ==
    { [tract_id |-> "A", properties |-> ("population" :> 100)],
      [tract_id |-> "A", properties |-> ("population" :> 50) @@ ("jobs" :> 2)],
      [tract_id |-> "B", properties |-> ("jobs" :> 4)],
      [tract_id |-> "", properties |-> ("population" :> 50)],
      [tract_id |-> "Z", properties |-> ("population" :> 1)] }

ExampleBase ==
    << [geometry |-> "gA",
        properties |-> ("tract_id" :> "A") @@ ("population" :> 7)],
       [geometry |-> "gB",
        properties |-> ("tract_id" :> "B") @@ ("population" :> 7)],
       [geometry |-> "gC",
        properties |-> ("tract_id" :> "C") @@ ("population" :> 7)],
       [geometry |-> "gD",
        properties |-> ("tract_id" :> "D") @@ ("population" :> 7)],
       [geometry |-> "gE",
        properties |-> ("tract_id" :> "E") @@ ("population" :> 7)] >>

ExampleResults ==
    << [tract_id |-> "A", properties |-> ("population" :> 100)],
       [tract_id |-> "C", properties |-> ("population" :> 50)] >>

SeqsUpTo(S, n) == UNION {[1..k -> S] : k \in 0..n}

MergeCases ==
    {[base |-> b, results |-> r, out |-> None] :
        b \in SeqsUpTo(MergeFeatures, MaxBaseLen),
        r \in SeqsUpTo(MergeResults, MaxResultLen)}
    \cup {[base |-> ExampleBase, results |-> ExampleResults, out |-> None]}

MergeInit == CoreInit /\ mergeIo \in {Some(c) : c \in MergeCases} /\ fillIo = None

\* the response `results` arrived while baseGeoJSON was `base`: merged
MergeApply ==
    /\ \E c \in mergeIo :
          /\ IsNull(c.out)
          /\ mergeIo' = Some([c EXCEPT !.out = Some(Merge(c.base, c.results))])
    /\ UNCHANGED <<simVars, mapVars, wsVars, tcVars, mounted, lastOp, observed,
                   fillIo>>

MergeStep == MergeApply

SpecMerge == MergeInit /\ [][MergeStep]_vars

\* createTractLayer: the fill color of every feature as a function of the
\* features' values of the selected metric. A value is what
\* f.properties?.[selectedMetric] may be: a finite number, NaN, an infinity,
\* a string (numeric or not), null, or undefined when the property is absent
MaxFillLen == 2

Num(n) == [kind |-> "number", n |-> n]
MetricValues ==
    { Num(0), Num(5),
      [kind |-> "NaN", n |-> 0],
      [kind |-> "Infinity", n |-> 0],
      [kind |-> "-Infinity", n |-> 0],
      [kind |-> "numeric string", n |-> 5],
      [kind |-> "string", n |-> 0],
      [kind |-> "null", n |-> 0],
      [kind |-> "undefined", n |-> 0] }

\* typeof val === "number"
TypeofNumber(val) == val.kind \in {"number", "NaN", "Infinity", "-Infinity"}

\* isFinite(val), the global function: the argument is converted to a number
\* first (null to 0, a numeric string to its number, undefined and any other
\* string to NaN)
IsFinite(val) == val.kind \in {"number", "numeric string", "null"}

\* values: the finite numbers among the features' values
values(vals) ==
    {vals[i].n : i \in {j \in 1..Len(vals) :
                           TypeofNumber(vals[j]) /\ IsFinite(vals[j])}}

minVal(vals) ==
    IF values(vals) = {} THEN 0
    ELSE CHOOSE m \in values(vals) : \A v \in values(vals) : m <= v
maxVal(vals) ==
    IF values(vals) = {} THEN 1
    ELSE CHOOSE m \in values(vals) : \A v \in values(vals) : v <= m

\* scaleSequential(interpolateRdYlBu).domain([maxVal, minVal]) applied to a
\* number: the red end at maxVal, the blue end at minVal, the middle of the
\* ramp between them and when the domain is a single point. The scale is the
\* library's; the notation of the color string it returns is an input
\* (fmt): hexadecimal "#rrggbb" or functional "rgb(r, g, b)"
colorScale(n, lo, hi, fmt) ==
    LET rgb == IF lo = hi THEN <<255, 255, 191>>
               ELSE IF n = hi THEN <<165, 0, 38>>
               ELSE IF n = lo THEN <<49, 54, 149>>
               ELSE <<255, 255, 191>>
    IN [fmt |-> fmt, rgb |-> rgb]

\* hexToRgb(hex): the three channels of a hexadecimal color string, gray for
\* any other string
hexToRgb(hex) ==
    IF hex.fmt = "hex" THEN hex.rgb ELSE <<100, 100, 100>>

\* getFillColor without the typeof test
getFillColorAnyFinite(val, lo, hi, fmt) ==
    IF IsFinite(val)
    THEN LET c == hexToRgb(colorScale(val.n, lo, hi, fmt)) IN
         <<c[1], c[2], c[3], 180>>
    ELSE <<40, 40, 50, 120>>

\* getFillColor(f) for a feature whose value of the selected metric is val
getFillColor(val, lo, hi, fmt) ==
    IF TypeofNumber(val) /\ IsFinite(val)
    THEN LET c == hexToRgb(colorScale(val.n, lo, hi, fmt)) IN
         <<c[1], c[2], c[3], 180>>
    ELSE <<40, 40, 50, 120>>

FillCases ==
    {[vals |-> v, fmt |-> fmt, out |-> None] :
        v \in SeqsUpTo(MetricValues, MaxFillLen) \ {<<>>},
        fmt \in {"hex", "rgb"}}

FillInit == CoreInit /\ mergeIo = None /\ fillIo \in {Some(c) : c \in FillCases}

\* the layer is created for the features: every feature's fill color
FillApply ==
    /\ \E c \in fillIo :
          /\ IsNull(c.out)
          /\ fillIo' = Some([c EXCEPT !.out =
                Some([i \in 1..Len(c.vals) |->
                        getFillColor(c.vals[i], minVal(c.vals), maxVal(c.vals),
                                     c.fmt)])])
    /\ UNCHANGED <<simVars, mapVars, wsVars, tcVars, mounted, lastOp, observed,
                   mergeIo>>

FillStep == FillApply

SpecFill == FillInit /\ [][FillStep]_vars

\* TimeControl on its own: the host holds currentTimestep and chooses
\* `disabled`; the user plays, pauses, resets, moves the slider over all of
\* 0 .. MAX_STEP and changes the speed; the component unmounts
TcOnly == UNCHANGED <<simVars, mapVars, wsVars, mounted, observed, fnVars>>

TcStep ==
    \/ /\ TogglePlay /\ TcOnly
       /\ lastOp' = IF isPlaying THEN "pause" ELSE "play"
    \/ HandleReset /\ lastOp' = "reset" /\ TcOnly
    \/ \E val \in 0..MAX_STEP :
          SliderChange(val) /\ lastOp' = "slider" /\ TcOnly
    \/ \E val \in Speeds : SetSpeed(val) /\ lastOp' = "speed" /\ TcOnly
    \/ \E t \in playTimers :
          /\ PlayTick(t) /\ TcOnly
          /\ lastOp' = IF isPlaying' THEN "tick" ELSE "tickStop"
    \/ \E b \in BOOLEAN : SetDisabled(b) /\ lastOp' = "disabled" /\ TcOnly
    \/ Unmount /\ lastOp' = "unmount" /\ UNCHANGED <<observed, fnVars>>

SpecTc == Init /\ [][TcStep]_vars

-----------------------------------------------------------------------------
(* Properties of the Session Controller and its poll source *)

NonTerminal(st) == st = "pending" \/ st = "running"

\* the poll timers created for run r
TimersOf(r) == {t \in 1..Len(pollTimers) : pollTimers[t] = r}

\* C2: once a terminal poll response was applied for a run id, no timer of
\* that run id is live (so no status request is issued for it any more), and
\* its timer was cancelled exactly once; no timer is ever cancelled twice.
C2_PollStopsAtTerminal ==
    /\ \A r \in terminalApplied : \A t \in TimersOf(r) :
          t \notin pollLive /\ cancelCount[t] = 1
    /\ \A t \in 1..Len(pollTimers) : cancelCount[t] <= 1

\* C2 witness: the completed response of run 1 was applied after the service
\* went through pending and running, and the timer of run 1 is cancelled
C2_Witness ==
    /\ 1 \in terminalApplied
    /\ status = Some(MkStatus(1, "completed", MaxProgress, MaxProgress, TOTAL_STEPS))
    /\ pollRef = 0
    /\ cancelCount[1] = 1

\* C3: the status held for a run id for which a terminal response was
\* applied is terminal (completed / failed are absorbing per run id).
C3_TerminalAbsorbing ==
    \A s \in status : s.run_id \in terminalApplied => Terminal(s.status)

\* C4: across a poll response applied for the run id the status already
\* describes, progress does not decrease while the status is pending or
\* running.
C4_ProgressMonotone ==
    [][\A req \in BagToSet(pollReqs) :
          ( /\ PollResolved(req)
            /\ \E s \in status : /\ s.run_id = req.run
                                 /\ NonTerminal(s.status)
                                 /\ s.progress = progress
            /\ NonTerminal(req.s.status) )
          => progress' >= progress]_vars

\* C5: whenever runId and status are both non-null, status describes the run
\* identified by runId.
C5_StatusOfActiveRun ==
    \A s \in status : runId # NullId => s.run_id = runId

\* C6: at most one poll timer is live, it is the one pollRef holds and the
\* one created last, so no status request is issued for an earlier run id.
C6_OnePollInterval ==
    /\ Cardinality(pollLive) <= 1
    /\ \A t \in pollLive : t = pollRef /\ t = Len(pollTimers)

\* C6 witness: a second run was launched while a status response of the first
\* is still in flight; only the timer of the second run is live
C6_Witness ==
    /\ Len(pollTimers) = 2
    /\ pollLive = {2}
    /\ \E req \in BagToSet(pollReqs) : req.run = 1

\* the fields reset() and selectScenario() put at their initial values
RunFieldsInitial ==
    runId = NullId /\ status = None /\ progress = 0 /\ error = None

\* C9 as claimed: reset() stops synchronization and leaves every field of
\* the state, isLoading included, at its initial value.
C9_ResetAllInitial ==
    [][reset => ( /\ pollLive' = {}
                  /\ config' = None /\ summary' = "" /\ warnings' = <<>>
                  /\ affectedTracts' = <<>> /\ history' = <<>>
                  /\ RunFieldsInitial'
                  /\ isLoading' = FALSE )]_vars

\* C9 amended: reset() leaves no poll timer live and puts config, summary,
\* warnings, affectedTracts, runId, status, progress, history and error at
\* their initial values; isLoading keeps its value.
C9_ResetInitialButLoading ==
    [][reset => ( /\ pollLive' = {}
                  /\ config' = None /\ summary' = "" /\ warnings' = <<>>
                  /\ affectedTracts' = <<>> /\ history' = <<>>
                  /\ RunFieldsInitial'
                  /\ isLoading' = isLoading )]_vars

\* C9 witness: reset() was called during a run with an interpretation in the
\* history: the state is initial again while a status response is in flight
C9_Witness ==
    /\ Len(pollTimers) > 0
    /\ pollLive = {}
    /\ terminalApplied = {}
    /\ config = None /\ history = <<>> /\ RunFieldsInitial
    /\ pollReqs # EmptyBag
    /\ isLoading

\* the state selectScenario(c) leaves behind
Selected(c) ==
    /\ config = Some(c)
    /\ Len(history) = 1
    /\ history[1].role = "system"
    /\ RunFieldsInitial

\* C10: selectScenario(c) leaves exactly one history entry, a system entry,
\* and runId, status, progress, error at their initial values; applied to
\* the state it left, it changes nothing.
C10_SelectScenario ==
    [][\A c \in ScenarioConfigs :
          selectScenario(c) =>
             /\ Selected(c)'
             /\ Selected(c) => UNCHANGED simState]_vars

\* C10 witness: a scenario was selected while a run had a completed status
\* and the history had grown; the run survives only in the service
C10_Witness ==
    /\ \E c \in ScenarioConfigs : Selected(c)
    /\ terminalApplied # {}
    /\ Len(pollTimers) > 0
-----------------------------------------------------------------------------
(* Properties of the Result Compositor and of teardown *)

\* what a committed fetch of (rid, ts) leaves in mergedGeoJSON
MergedFor(rid, ts) == Some(Merge(BaseGeometry, Results(rid, ts)))

\* C1: when a result fetch resolves, it replaces mergedGeoJSON with its own
\* merge if it is the most recently issued fetch (the one whose controller
\* abortRef holds), and leaves mergedGeoJSON alone if it was superseded.
C1_OnlyLatestFetchCommits ==
    [][\A f \in BagToSet(fetches) :
          FetchResolved(f) =>
             IF f.current THEN mergedGeoJSON' = MergedFor(f.rid, f.ts)
                          ELSE UNCHANGED mergedGeoJSON]_vars

\* C1 witness: fetches for timestep 1 and then timestep 2 of run 1 were
\* issued, the response for timestep 2 arrived first and was committed, the
\* response for timestep 1 is still to come
C1_Witness ==
    /\ mergedGeoJSON = MergedFor(1, 2)
    /\ \E f \in BagToSet(fetches) :
          f.rid = 1 /\ f.ts = 1 /\ f.aborted /\ ~f.current
    /\ mapRunId = 1 /\ mapTimestep = 2

\* C7: while the run id given to useMapData is null and the base geometry is
\* loaded, mergedGeoJSON is the base geometry.
C7_NullRunShowsBase ==
    (mounted /\ mapRunId = NullId /\ ~IsNull(baseGeoJSON))
       => mergedGeoJSON = baseGeoJSON

\* the four resources of a session
PollIntervalActive == pollLive # {}
ChannelOpen == \E k \in BagToSet(sockets) : k.state \in {"connecting", "open"}
FetchCanCommit == \E f \in BagToSet(fetches) : ~f.aborted
PlaybackIntervalActive == playTimers # {}

\* C8: reset() and unmounting leave no poll interval, no open push channel,
\* no result fetch that can still commit and no playback interval.
C8_TeardownReleasesAll ==
    [][(reset \/ Unmount) =>
          ~( PollIntervalActive \/ ChannelOpen \/ FetchCanCommit
             \/ PlaybackIntervalActive )']_vars

-----------------------------------------------------------------------------
(* Properties of the Playback Controller *)

\* C11: while TimeControl is disabled no playback interval is active (so no
\* tick can emit a timestep-change event).
C11_DisabledMeansStopped ==
    (mounted /\ disabled) => ~PlaybackIntervalActive

\* a step that is a tick of the playback interval
IsTick == \E t \in playTimers : PlayTick(t)

\* C12: the timestep never exceeds MAX_STEP, whatever the operations; a tick
\* at step s with s + 1 > MAX_STEP stops playback and emits nothing, any
\* other tick emits exactly s + 1.
C12_PlaybackWithinMax ==
    [][ /\ currentTimestep' \in 0..MAX_STEP
        /\ IsTick =>
              IF currentTimestep + 1 > MAX_STEP
              THEN /\ UNCHANGED currentTimestep
                   /\ ~isPlaying' /\ ~PlaybackIntervalActive'
              ELSE currentTimestep' = currentTimestep + 1 ]_vars

\* C12 witness: playback ran into the last step and the tick after it
\* stopped the controller
C12_Witness ==
    /\ lastOp = "tickStop"
    /\ currentTimestep = MAX_STEP
    /\ ~isPlaying /\ ~PlaybackIntervalActive

\* the period the Playback Controller is to tick with at each speed
PeriodAt(sp) == CASE sp = 1 -> 500 [] sp = 2 -> 250 [] sp = 5 -> 100

\* C13: at most one playback interval exists, intervalRef holds it, and its
\* period is max(50, 500 / speed) for the current speed: 500, 250, 100 ms.
C13_OnePlaybackInterval ==
    /\ Cardinality(playTimers) <= 1
    /\ \A t \in playTimers :
          /\ t.current
          /\ t.ms = Max(50, 500 \div speed)
          /\ t.ms = PeriodAt(speed)

\* C13 witness: the speed was changed to 5 while playing; the one interval
\* has the period of the new speed
C13_Witness ==
    /\ lastOp = "speed"
    /\ isPlaying /\ speed = 5
    /\ playTimers = {[ms |-> 100, current |-> TRUE]}

\* C14: a tick changes the timestep by one event at most, and the step it
\* emits is the one after the current step; a speed change emits nothing and,
\* while playing, leaves exactly one interval, so the next tick emits the
\* next step once.
C14_NoSkipNoDuplicate ==
    [][ /\ IsTick =>
              currentTimestep' \in {currentTimestep, currentTimestep + 1}
        /\ \A val \in Speeds :
              SetSpeed(val) =>
                 /\ UNCHANGED currentTimestep
                 /\ isPlaying => Cardinality(playTimers') = 1 ]_vars

\* C14 witness: a tick emitted a step beyond the first at speed 5, right
\* after playback had been going on
C14_Witness ==
    /\ lastOp = "tick"
    /\ speed = 5
    /\ currentTimestep > 1
    /\ Cardinality(playTimers) = 1

-----------------------------------------------------------------------------
(* Properties of the Session Controller's operations *)

\* interpret, refine and launch requests that are outstanding
Outstanding == BagCardinality(parseReqs) + launchReqs

\* C15: isLoading is true whenever an interpret, refine or launch request is
\* outstanding, also when several overlap.
C15_LoadingBracketsRequests ==
    (mounted /\ Outstanding > 0) => isLoading

\* steps of the Session Controller's operations
IsIssue ==
    \/ \E text \in Texts : ParsePolicy(text) \/ RefinePolicy(text)
    \/ StartSimulation
IsSuccess ==
    \/ \E req \in BagToSet(parseReqs), res \in ParseResponses :
          ParseResolved(req, res)
    \/ LaunchResolved
    \/ \E c \in ScenarioConfigs : selectScenario(c)
IsFailure ==
    \/ \E req \in BagToSet(parseReqs), err \in Failures : ParseRejected(req, err)
    \/ \E err \in Failures : LaunchRejected(err)

\* a recorded error message is dropped or replaced by this step
ErrorChanged == error # None /\ error' # error

\* C16 as claimed: a recorded error message stays until an operation
\* completes successfully or reset() is called (a later failure may put its
\* own message in its place).
C16_ErrorKeptUntilSuccess ==
    [][ErrorChanged => (IsSuccess \/ reset \/ error' # None)]_vars

\* C16 amended: a recorded error message stays until interpret, refine or
\* launch is next called (with a config for the last two), selectScenario
\* or reset() is called, or a later failure replaces it; poll ticks, poll
\* responses, the service and successful completions never change it.
C16_ErrorKeptUntilNextOperation ==
    [][ErrorChanged =>
          ( \/ IsIssue
            \/ \E c \in ScenarioConfigs : selectScenario(c)
            \/ reset
            \/ IsFailure )]_vars

\* C16 witness: an error message is held while the poll loop has applied a
\* completed status and has stopped
C16_Witness ==
    /\ error = Some("Network Error")
    /\ \E s \in status : s.status = "completed"
    /\ terminalApplied # {}
    /\ pollLive = {}

\* C17: a launch that succeeds sets runId to the new run id, status to
\* pending with progress 0, step 0 and TOTAL_STEPS, leaves progress at 0 and
\* leaves the poll timer of that run id as the live one.
C17_LaunchInitializesRun ==
    [][(mounted /\ LaunchResolved) =>
          LET id == Len(svc) + 1 IN
            /\ runId' = id
            /\ status' = Some(MkStatus(id, "pending", 0, 0, TOTAL_STEPS))
            /\ progress' = 0
            /\ \E t \in pollLive' : pollTimers'[t] = id /\ pollRef' = t]_vars

\* C18: a failed interpret, refine or launch stores a non-empty message in
\* error and changes nothing else of the state; it starts no poll timer.
C18_FailureKeepsState ==
    [][(mounted /\ IsFailure) =>
          /\ \E m \in error' : m # ""
          /\ UNCHANGED <<config, summary, warnings, affectedTracts, history,
                         runId, status, progress>>
          /\ UNCHANGED <<pollRef, pollTimers, pollLive>>]_vars

\* C18 witness: a second launch failed with something that is not an Error
\* while the first run is being polled; the run is still there
C18_Witness ==
    /\ error = Some("Failed to start simulation")
    /\ runId = 1 /\ pollLive = {1}
    /\ launchReqs = 0
    /\ ~IsNull(config)

\* C19: a successful interpret or refine puts the response's config,
\* summary, warnings and affected tracts in the state and appends a user
\* entry with the text and a system entry with the summary and warnings to
\* the history, whose earlier entries stay as they are.
C19_ParseAppendsTwo ==
    [][\A req \in BagToSet(parseReqs), res \in ParseResponses :
          (mounted /\ ParseResolved(req, res)) =>
             LET n == Len(history) IN
               /\ config' = Some(res.config)
               /\ summary' = res.summary
               /\ warnings' = (IF res.warnings = None THEN <<>>
                                                     ELSE Val(res.warnings))
               /\ affectedTracts' = res.affected_tracts
               /\ Len(history') = n + 2
               /\ SubSeq(history', 1, n) = history
               /\ history'[n + 1].role = "user"
               /\ history'[n + 1].text = req.text
               /\ history'[n + 2].role = "system"
               /\ history'[n + 2].summary = Some(res.summary)
               /\ history'[n + 2].warnings = res.warnings]_vars

\* C19 witness: a refinement succeeded after a scenario was selected: the
\* scenario's entry is followed by the user entry and the system entry
\* with the warnings
C19_Witness ==
    /\ Len(history) = 3
    /\ history[1].role = "system" /\ history[1].warnings = None
    /\ history[2] = UserEntry("build housing")
    /\ history[3] = SystemEntry("s1", "s1", Some(<<"w">>))
    /\ summary = "s1" /\ warnings = <<"w">> /\ affectedTracts = <<"A">>

\* C20: refine(text) and launch() called without a config issue no request
\* and change no field of the state, isLoading and error included.
C20_NoConfigNoOp ==
    [][(IsNull(config) /\ ( \/ \E text \in Texts : RefinePolicy(text)
                            \/ StartSimulation ))
          => /\ UNCHANGED <<parseReqs, launchReqs, pollReqs>>
             /\ UNCHANGED simState
             /\ UNCHANGED <<pollRef, pollTimers, pollLive>>]_vars

\* C20 witness: without a config, an error is shown and nothing is loading:
\* the state in which a refine or launch would show if it were not a no-op
C20_Witness ==
    /\ IsNull(config)
    /\ error # None /\ ~isLoading
    /\ Outstanding = 0
    /\ HistoryRoom /\ Len(svc) + launchReqs < MaxLaunches

-----------------------------------------------------------------------------
(* Properties of the push source *)

\* the sockets that are opening or open
OpenChannels == {k \in BagToSet(sockets) : k.state \in {"connecting", "open"}}

\* C21: at most one channel is opening or open; it is the one wsRef holds,
\* it is addressed to the current runId, and the status held is that of
\* this run id and is running. (A channel of an earlier run id or of a
\* status that left running is not open.)
C21_ChannelOnlyWhileRunning ==
    /\ Cardinality(OpenChannels) <= 1
    /\ \A k \in OpenChannels :
          /\ CopiesIn(k, sockets) = 1
          /\ k.current
          /\ runId # NullId /\ k.run = runId
          /\ \E s \in status : s.status = "running" /\ s.run_id = runId

\* C22: a decodable message received on the channel is put in lastMessage
\* and handed to the observer; runId, status, progress and every other
\* field of the Session Controller stay as they are, and so do the
\* sockets and the connected flag.
C22_MessageWritesOwnSlot ==
    [][\A k \in BagToSet(sockets), payload \in Payloads :
          (payload.ok /\ WsDeliver(k, payload)) =>
             /\ lastMessage' = Some(payload.msg)
             /\ observed' = Some(payload.msg)
             /\ UNCHANGED <<runId, status, progress>>
             /\ UNCHANGED simState
             /\ UNCHANGED <<sockets, isConnected>>]_vars

\* C22 witness: a message reporting progress 1 was received and observed
\* while the Session Controller still holds progress 0 for the running run
C22_Witness ==
    /\ lastOp = "message"
    /\ \E m \in lastMessage : m.progress = 1 /\ observed = Some(m)
    /\ progress = 0
    /\ \E s \in status : s.status = "running" /\ s.progress = 0

\* C28: a payload that does not decode leaves lastMessage and isConnected
\* as they are, does not reach the observer and puts nothing in error.
C28_MalformedDropped ==
    [][\A k \in BagToSet(sockets), payload \in Payloads :
          (~payload.ok /\ WsDeliver(k, payload)) =>
             UNCHANGED <<lastMessage, isConnected, observed, error>>]_vars

\* C28 witness: the last payload pushed did not decode; the channel is
\* connected, no message was ever stored or observed, no error is shown
C28_Witness ==
    /\ lastOp = "malformed"
    /\ isConnected
    /\ lastMessage = None /\ observed = None
    /\ error = None

-----------------------------------------------------------------------------
(* Properties of the poll loop *)

\* the step in which status request req is rejected
PollFails(req) == PollRejected(req) /\ lastOp' = "pollRejected"

\* C27: a rejected status request changes nothing useSimulation returns
\* (status, progress, error and the rest), leaves the interval and pollRef as
\* they are, and a tick of the interval after it sends a status request for
\* the timer's run id.
C27_PollFailureSwallowed ==
    [][/\ \A req \in BagToSet(pollReqs) :
            PollFails(req) =>
               /\ UNCHANGED <<status, progress, error>>
               /\ UNCHANGED simState
               /\ UNCHANGED <<pollLive, pollRef, pollTimers>>
       /\ \A t \in pollLive :
            (lastOp = "pollRejected" /\ PollTick(t)
                /\ lastOp' = "tickAfterRejected") =>
               /\ BagCardinality(pollReqs') = BagCardinality(pollReqs) + 1
               /\ \E req \in BagToSet(pollReqs') : req.run = pollTimers[t]]_vars

\* C27 witness: a status request of the running run was rejected, no error
\* is shown, the interval is live and its next tick has sent a request
C27_Witness ==
    /\ lastOp = "tickAfterRejected"
    /\ pollLive = {pollRef}
    /\ error = None
    /\ \E s \in status : s.status = "running" /\ s.run_id = runId
    /\ \E req \in BagToSet(pollReqs) : req.run = runId

\* C30: whenever runId is null, no poll interval is live and status is null.
C30_NoRunNoPolling ==
    runId = NullId => (pollLive = {} /\ status = None)

-----------------------------------------------------------------------------
(* Properties of a failed result fetch *)

\* the step in which the request of fetch f is rejected
FetchFails(f) == FetchRejected(f) /\ lastOp' = "fetchRejected"

-----------------------------------------------------------------------------
(* Properties of the fill color *)

\* a value that is a finite number
FiniteNumber(val) == val.kind = "number"

\* C29: a feature whose value of the selected metric is absent, not a
\* number or not finite is filled with [40, 40, 50, 120], whatever the
\* other features' values, the domain computed from them and the notation
\* of the scale's colors are; a feature whose value is a finite number is
\* filled with opacity 180.
C29_NoDataFill ==
    \A c \in fillIo : \A out \in c.out : \A i \in 1..Len(c.vals) :
       /\ ~FiniteNumber(c.vals[i]) => out[i] = <<40, 40, 50, 120>>
       /\ FiniteNumber(c.vals[i]) =>
             (out[i][4] = 180 /\ out[i] # <<40, 40, 50, 120>>)

\* C29 witness: filled, a feature with a numeric string next to one with a
\* finite number: the first has the no-data fill, the second has not
C29_Witness ==
    \E c \in fillIo : \E out \in c.out :
       /\ Len(c.vals) = 2
       /\ c.vals[1].kind = "numeric string" /\ c.vals[2] = Num(5)
       /\ out[1] = <<40, 40, 50, 120>>
       /\ out[2][4] = 180

-----------------------------------------------------------------------------
(* Properties of the merge *)

\* the base features of a merged case that lack both identifier fields
Unidentified(base) ==
    {i \in 1..Len(base) :
        {"tract_id", "GEOID"} \cap DOMAIN base[i].properties = {}}

\* the results whose tract id is the join key of feature f
Hits(results, f) == {j \in 1..Len(results) : results[j].tract_id = JoinKey(f)}

\* C23: for every base geometry and every result set the merged collection
\* has as many features as the base geometry, in the same order: feature i
\* of the merge carries the geometry and the identifiers of base feature i.
C23_MergeKeepsEveryFeature ==
    \A c \in mergeIo : \A m \in c.out :
       /\ Len(m) = Len(c.base)
       /\ \A i \in 1..Len(c.base) :
             /\ m[i].geometry = c.base[i].geometry
             /\ JoinKey(m[i]) = JoinKey(c.base[i])

\* C23 witness: merged, a matched feature behind an unmatched one
C23_Witness ==
    \E c \in mergeIo : \E m \in c.out :
       /\ Len(c.base) = 2 /\ Len(m) = 2
       /\ c.base[1].geometry = "gN" /\ c.base[2].geometry = "gA"
       /\ ~m[1].properties["_hasResult"]
       /\ m[2].properties["_hasResult"]

\* C24: a base feature gets _hasResult = TRUE exactly when the result set
\* holds a result whose tract id is the feature's join key; its properties
\* are then the base properties overlaid with that result's properties, the
\* result winning where both have the key; without such a result the
\* feature has _hasResult = FALSE and its base properties only.
C24_MergeAnnotates ==
    \A c \in mergeIo : \A m \in c.out : \A i \in DOMAIN m \cap DOMAIN c.base :
       LET f == c.base[i]
           p == m[i].properties
           hits == Hits(c.results, f)
       IN /\ "_hasResult" \in DOMAIN p
          /\ p["_hasResult"] = (hits # {})
          /\ hits # {} =>
                \E j \in hits :
                   LET rp == c.results[j].properties IN
                   /\ DOMAIN p = DOMAIN f.properties \cup DOMAIN rp \cup {"_hasResult"}
                   /\ \A k \in DOMAIN rp : p[k] = rp[k]
                   /\ \A k \in DOMAIN f.properties \ DOMAIN rp : p[k] = f.properties[k]
          /\ hits = {} =>
                /\ DOMAIN p = DOMAIN f.properties \cup {"_hasResult"}
                /\ \A k \in DOMAIN f.properties : p[k] = f.properties[k]

\* C24 witness: the scenario of tracts A..E with results for A and C is
\* merged: A and C are matched and carry the result's population, B, D and E
\* are not and keep theirs
C24_Witness ==
    \E c \in mergeIo : \E m \in c.out :
       /\ c.base = ExampleBase /\ c.results = ExampleResults
       /\ Len(m) = 5
       /\ [i \in 1..5 |-> m[i].properties["_hasResult"]]
             = <<TRUE, FALSE, TRUE, FALSE, FALSE>>
       /\ [i \in 1..5 |-> m[i].properties["population"]] = <<100, 7, 50, 7, 7>>

\* C25: a base feature that has neither tract_id nor GEOID has the empty
\* string as its join key and is merged with _hasResult = FALSE, whatever
\* the result set holds.
C25_UnidentifiedNeverMatches ==
    \A c \in mergeIo : \A m \in c.out : \A i \in Unidentified(c.base) \cap DOMAIN m :
       /\ JoinKey(c.base[i]) = ""
       /\ ~m[i].properties["_hasResult"]

-----------------------------------------------------------------------------
(* Properties of responses that arrive late *)

\* the state reset() leaves: no config (only reset() removes the config), no
\* run id, no status, no poll timer
AfterReset ==
    config = None /\ runId = NullId /\ status = None /\ pollLive = {}

\* a response to a launch, refine or status request is applied. In a state
\* AfterReset such a request was issued before the reset: a launch and a
\* refinement need a config, a status request needs a live timer
LateResponse ==
    \/ LaunchResolved
    \/ \E req \in BagToSet(pollReqs) : PollResolved(req)
    \/ \E req \in BagToSet(parseReqs), res \in ParseResponses :
          req.kind = "refine" /\ ParseResolved(req, res)

\* C31: the response of a launch, refine or status request issued before
\* reset() and arriving after it is not applied: the state stays as reset()
\* left it, with no config, no run id, no status and no poll timer.
C31_LateResponseDiscarded ==
    [][(AfterReset /\ LateResponse) => AfterReset']_vars

-----------------------------------------------------------------------------
(* Liveness of the poll source *)

\* status is terminal and no poll timer is live
TerminalReached ==
    pollLive = {} /\ \E s \in status : Terminal(s.status)

\* C32: after a successful launch, when every status request returns and
\* the service ends the run, eventually status is terminal with polling
\* stopped, and stays so forever, whatever the order in which the responses
\* arrive.
C32_EventuallyTerminalForever ==
    (runId # NullId) ~> [] TerminalReached

-----------------------------------------------------------------------------
(* Properties of the loading flag of useMapData *)

\* C33: while the result fetch issued last (the one whose controller
\* abortRef holds) is outstanding, isLoading of useMapData is true; a
\* superseded fetch that completes does not clear it.
C33_LoadingWhileLatestOutstanding ==
    (mounted /\ \E f \in BagToSet(fetches) : f.current) => mapIsLoading

-----------------------------------------------------------------------------
(* Properties of the connected flag of useWebSocket *)

\* C34: isConnected reflects the channel wsRef holds: while that channel is
\* open isConnected is true, whatever events of channels closed earlier
\* arrive; while no channel is open isConnected is false.
C34_ConnectedReflectsChannel ==
    /\ (\E k \in BagToSet(sockets) : k.current /\ k.state = "open")
          => isConnected
    /\ (\A k \in BagToSet(sockets) : k.state # "open") => ~isConnected
====
